---- MODULE Spec2Model ----
(***************************************************************************)
(* twitchrise-bot (bot.py): a background thread, monitor_twitch, polls     *)
(* Twitch for the channels of every chat's watchlist and notifies on       *)
(* live/offline changes; the Telegram command handlers (/start, /add,      *)
(* /remove) run on the main thread and share the globals watchlists,       *)
(* live_status and user_ids_cache with it.                                 *)
(*                                                                         *)
(* The monitor thread and the handler thread are two processes.  Each      *)
(* action is the code between two points where the thread blocks on the    *)
(* network (requests.get/post, Apprise.notify) or on log output; the       *)
(* shared state a piece reads is read when the piece starts.               *)
(***************************************************************************)
EXTENDS Integers, Sequences, FiniteSets, TLC

(***************************************************************************)
(* Bounded inputs.                                                         *)
(***************************************************************************)
\* The longest channel list a stored watchlists.json holds for a chat.
MaxInitLen == 2

Chats == {"c1", "c2"}
\* What a user may type after /add or /remove.
RawNames == {"alice", "Alice", "bob", "carol", "ghost"}

\* Who may write in a chat: effective_user.
Users == {"ua"}
\* What a user may type after /setapprise.
Urls == {"url1", "url2"}

\* line 34, and ConversationHandler.END of python-telegram-bot
SET_APPRISE_CONFIRM == 1
END == -1

\* No value (Python None).
None == "None"

\* A lower() that leaves capitals alone.
lowerKeepsCase(s) == s

\* str.lower() on the names of the model.
lower(s) == IF s = "Alice" THEN "alice" ELSE s

Names == {lower(r) : r \in RawNames}

\* The ids helix/users may answer for a login: alice's login has belonged
\* to two accounts, ghost is no Twitch login.
TwitchIds(login) ==
    CASE login = "alice" -> {"u1", "u3"}
      [] login = "bob" -> {"u2"}
      [] login = "carol" -> {"u4"}
      [] OTHER -> {}

Ids == UNION {TwitchIds(n) : n \in Names}

Range(s) == {s[i] : i \in 1..Len(s)}

\* dict.values()
Values(f) == {f[k] : k \in DOMAIN f}

\* dict.get(k, d)
Get(f, k, d) == IF k \in DOMAIN f THEN f[k] ELSE d

\* {} : the empty dict
EmptyDict == [x \in {} |-> TRUE]

VARIABLES
    \* globals of bot.py
    watchlists,      \* dict in insertion order: sequence of entries
    live_status,     \* {twitch_user_id: bool}
    user_ids_cache,  \* {username: user_id}
    \* monitor_twitch: position and locals
    mpc, all_channels, m_to_fetch, user_id_map, live_data, di_used, ci, wi,
    \* add_channel: position and locals
    hpc, h_chat, h_channel, h_to_fetch, h_uid, h_live_data,
    \* observations (no code reads them)
    sent,            \* notifications the monitor sent in the current cycle
    polled,          \* ids the current cycle sent to helix/streams
    delivery_failed, \* some Apprise.notify of the current cycle returned False
    hsent,           \* notifications the current /add sent
    last_cycle,      \* how the latest cycle ended: "none", "ok", or the call
                     \* that raised: "resolve_error", "poll_error", "error"
    prev_poll,       \* the latest completed poll: id polled |-> reported live
    already_live,    \* (chat, channel) pairs sent "already LIVE" since that cycle
    \* the /setapprise conversation (python-telegram-bot keeps both)
    conv,            \* ConversationHandler state of each (chat, user)
    user_data,       \* context.user_data["pending_apprise_url"] of each user
    \* observations of the commands (no code reads them)
    last_test,       \* (chat, user) |-> <<url, worked>> of its latest test
    last_cmd,        \* the latest command handled, seq flips at each one
    informed         \* (chat, channel) pairs told the channel is live and not
                     \* yet told it went offline, since the chat added it

mlocals == <<all_channels, m_to_fetch, user_id_map, live_data, di_used, ci, wi>>
mobs == <<sent, polled, delivery_failed>>
mvars == <<mpc, mlocals, mobs>>
hvars == <<hpc, h_chat, h_channel, h_to_fetch, h_uid, h_live_data, hsent>>
obs == <<last_cycle, prev_poll, already_live>>
globals == <<watchlists, live_status, user_ids_cache>>
avars == <<conv, user_data, last_test, last_cmd, informed>>
vars == <<globals, mvars, hvars, obs, avars>>

(***************************************************************************)
(* The watchlists dict.                                                    *)
(***************************************************************************)
NewEntry(chat_id) == [chat_id |-> chat_id, channels |-> << >>, apprise_urls |-> << >>]

HasChat(w, chat_id) == \E i \in 1..Len(w) : w[i].chat_id = chat_id

ChatIdx(w, chat_id) == CHOOSE i \in 1..Len(w) : w[i].chat_id = chat_id

\* watchlists.get(chat_id, {}).get("channels", [])
ChannelsOf(w, chat_id) ==
    IF HasChat(w, chat_id) THEN w[ChatIdx(w, chat_id)].channels ELSE << >>

\* watchlists.setdefault(chat_id, {"channels": [], "apprise_urls": []})
SetDefault(w, chat_id) ==
    IF HasChat(w, chat_id) THEN w ELSE Append(w, NewEntry(chat_id))

\* list.remove(x): deletes the first occurrence
ListRemove(s, x) ==
    LET k == CHOOSE i \in 1..Len(s) : s[i] = x /\ \A j \in 1..(i - 1) : s[j] # x
    IN  [i \in 1..(Len(s) - 1) |-> IF i < k THEN s[i] ELSE s[i + 1]]

(***************************************************************************)
(* get_user_ids, get_live_streams                                          *)
(***************************************************************************)
\* lines 66-67: the names not in the cache
ToFetch(usernames, cache) ==
    {u \in {lower(x) : x \in usernames} : u \notin DOMAIN cache}

\* resp.json()["data"] of helix/users: one record per login Twitch knows
UsersResponses(to_fetch) ==
    LET found == {n \in to_fetch : TwitchIds(n) # {}}
    IN  {f \in [found -> Ids] : \A n \in found : f[n] \in TwitchIds(n)}

\* lines 74-75: user_ids_cache[user['login']] = user['id']
CacheStore(cache, resp) ==
    [n \in DOMAIN cache \cup DOMAIN resp |->
        IF n \in DOMAIN resp THEN resp[n] ELSE cache[n]]

\* A result that keeps the unresolved names, mapped to None.
UserIdMapKeepsUnresolved(usernames, cache) ==
    [u \in {lower(y) : y \in usernames} |-> Get(cache, u, None)]

\* line 77: {u: user_ids_cache.get(u) for u in usernames if u in user_ids_cache}
UserIdMap(usernames, cache) ==
    [u \in {x \in {lower(y) : y \in usernames} : x \in DOMAIN cache} |-> cache[u]]

\* get_live_streams: the ids helix/streams reports live; no call for no ids
LiveResponses(user_ids) == IF user_ids = {} THEN {{}} ELSE SUBSET user_ids

\* line 122: current_live = {uid: True for uid in live_data}
CurrentLive(data) == [uid \in data |-> TRUE]

(***************************************************************************)
(* send_notification                                                       *)
(***************************************************************************)
Note(chat_id, channel, kind) == [chat |-> chat_id, channel |-> channel, kind |-> kind]

\* A send_notification that raises when delivery fails.
AfterSendRaises(ok) == IF ok THEN "continue" ELSE "raise"

\* What follows a send whose ap.notify(...) returned ok: the result is dropped.
AfterSend(ok) == "continue"

InitLocals ==
    /\ mpc = "token"
    /\ all_channels = {}
    /\ m_to_fetch = {}
    /\ user_id_map = EmptyDict
    /\ live_data = {}
    /\ di_used = 0
    /\ ci = 0
    /\ wi = 0
    /\ sent = {}
    /\ polled = {}
    /\ delivery_failed = FALSE
    /\ hpc = "idle"
    /\ h_chat = None
    /\ h_channel = None
    /\ h_to_fetch = {}
    /\ h_uid = None
    /\ h_live_data = {}
    /\ hsent = {}
    /\ last_cycle = "none"
    /\ prev_poll = EmptyDict
    /\ already_live = {}
    /\ conv = [k \in Chats \X Users |-> END]
    /\ user_data = [u \in Users |-> None]
    /\ last_test = [k \in Chats \X Users |-> <<None, FALSE>>]
    /\ last_cmd = [seq |-> 0, cmd |-> None, chat |-> None, args |-> << >>]
    /\ informed = {}

\* lines 29-31 and 51: no watchlists.json yet
Init ==
    /\ watchlists = << >>
    /\ live_status = EmptyDict
    /\ user_ids_cache = EmptyDict
    /\ InitLocals

(***************************************************************************)
(* monitor_twitch                                                          *)
(***************************************************************************)
\* line 102: get_app_token() before the loop, outside the try
MToken ==
    /\ mpc = "token"
    /\ mpc' = "loop"
    /\ UNCHANGED <<globals, mlocals, mobs, hvars, obs>>

\* line 102 raising: the exception leaves monitor_twitch and the thread ends
MTokenFail ==
    /\ mpc = "token"
    /\ mpc' = "dead"
    /\ UNCHANGED <<globals, mlocals, mobs, hvars, obs>>

\* A cycle that reads the first subscriber's channels only.
AllChannelsFirstChat(w) == IF Len(w) = 0 THEN {} ELSE Range(w[1].channels)

\* lines 113-115: the union of every chat's channels
AllChannels(w) == UNION {Range(w[i].channels) : i \in 1..Len(w)}

\* lines 111-118 and 66-67: gather the channels, find the names to fetch
MBegin ==
    /\ mpc = "loop"
    /\ all_channels' = AllChannels(watchlists)
    /\ m_to_fetch' = ToFetch(AllChannels(watchlists), user_ids_cache)
    /\ mpc' = "resolve"
    /\ UNCHANGED <<globals, user_id_map, live_data, di_used, ci, wi, mobs, hvars, obs>>

\* line 151: the cycle is over, its locals are gone
MEnd ==
    /\ mpc' = "loop"
    /\ all_channels' = {}
    /\ m_to_fetch' = {}
    /\ user_id_map' = EmptyDict
    /\ live_data' = {}
    /\ di_used' = 0
    /\ ci' = 0
    /\ wi' = 0
    /\ sent' = {}
    /\ polled' = {}
    /\ delivery_failed' = FALSE

\* What the except branch logs: where the cycle was when the call raised.
ErrorAt(pc) ==
    IF pc = "resolve" THEN "resolve_error"
    ELSE IF pc = "poll" THEN "poll_error"
    ELSE "error"

\* An except branch that also forgets the snapshot (live_status = {}).
MExceptWipes ==
    /\ MEnd
    /\ last_cycle' = ErrorAt(mpc)
    /\ live_status' = EmptyDict
    /\ UNCHANGED <<watchlists, user_ids_cache, hvars, prev_poll, already_live>>

\* lines 148-151: except Exception: log, then sleep; live_status is not assigned
MExcept ==
    /\ MEnd
    /\ last_cycle' = ErrorAt(mpc)
    /\ UNCHANGED <<globals, hvars, prev_poll, already_live>>

\* lines 68-77 and 118: fetch the missing names, store them, build user_id_map
MResolve ==
    /\ mpc = "resolve"
    /\ \E resp \in UsersResponses(m_to_fetch) :
          /\ user_ids_cache' = IF m_to_fetch = {} THEN user_ids_cache
                               ELSE CacheStore(user_ids_cache, resp)
          /\ user_id_map' = UserIdMap(all_channels, user_ids_cache')
    /\ mpc' = "poll"
    /\ UNCHANGED <<watchlists, live_status, all_channels, m_to_fetch, live_data,
                   di_used, ci, wi, mobs, hvars, obs>>

\* A failing lookup that has already stored part of its batch.
MResolveFailStores ==
    /\ mpc = "resolve"
    /\ m_to_fetch # {}
    /\ MEnd
    /\ last_cycle' = "resolve_error"
    /\ \E resp \in UsersResponses(m_to_fetch) :
          user_ids_cache' = CacheStore(user_ids_cache, resp)
    /\ UNCHANGED <<watchlists, live_status, hvars, prev_poll, already_live>>

\* line 73: resp.raise_for_status() raises (only when a request is made)
MResolveFail ==
    /\ mpc = "resolve"
    /\ m_to_fetch # {}
    /\ MExcept

\* lines 121-125: poll the resolved ids, then start iterating watchlists.items()
MPoll ==
    /\ mpc = "poll"
    /\ polled' = Values(user_id_map)
    /\ \E data \in LiveResponses(Values(user_id_map)) : live_data' = data
    /\ di_used' = Len(watchlists)
    /\ ci' = 0
    /\ wi' = 0
    /\ mpc' = "diff"
    /\ UNCHANGED <<globals, all_channels, m_to_fetch, user_id_map, sent,
                   delivery_failed, hvars, obs>>

\* line 85: resp.raise_for_status() raises (only when a request is made)
MPollFail ==
    /\ mpc = "poll"
    /\ Values(user_id_map) # {}
    /\ MExcept

\* A diff that forgets was_live: every poll of a live channel notifies.
TransitionIgnoresWas(was_live, is_live) ==
    IF is_live THEN "live"
    ELSE IF was_live THEN "offline"
    ELSE "none"

\* lines 134 and 141: which notification a (was_live, is_live) pair asks for
Transition(was_live, is_live) ==
    IF is_live /\ ~was_live THEN "live"
    ELSE IF ~is_live /\ was_live THEN "offline"
    ELSE "none"

\* lines 126-145: the next channel of the current chat's list
MDiffPair ==
    /\ mpc = "diff"
    /\ ci >= 1
    /\ wi < Len(watchlists[ci].channels)
    /\ LET chat_id == watchlists[ci].chat_id
           username == watchlists[ci].channels[wi + 1]
           uid == Get(user_id_map, lower(username), None)
           was_live == Get(live_status, uid, FALSE)
           is_live == Get(CurrentLive(live_data), uid, FALSE)
           kind == Transition(was_live, is_live)
       IN  IF uid = None \/ kind = "none"
           THEN /\ wi' = wi + 1
                /\ UNCHANGED <<globals, mpc, all_channels, m_to_fetch, user_id_map,
                               live_data, di_used, ci, mobs, hvars, obs>>
           ELSE \E ok \in BOOLEAN :
                IF AfterSend(ok) = "continue"
                THEN /\ sent' = sent \cup {Note(chat_id, username, kind)}
                     /\ delivery_failed' = (delivery_failed \/ ~ok)
                     /\ wi' = wi + 1
                     /\ UNCHANGED <<globals, mpc, all_channels, m_to_fetch,
                                    user_id_map, live_data, di_used, ci, polled,
                                    hvars, obs>>
                ELSE MExcept

\* line 126: the list iterator of the current chat has no next element
\* (or no chat has been taken from the dict iterator yet)
InnerDone == IF ci = 0 THEN TRUE ELSE wi >= Len(watchlists[ci].channels)

\* line 125: next() on the dict iterator, the dict has the size it started with
MDiffNextChat ==
    /\ mpc = "diff"
    /\ InnerDone
    /\ Len(watchlists) = di_used
    /\ ci < Len(watchlists)
    /\ ci' = ci + 1
    /\ wi' = 0
    /\ UNCHANGED <<globals, mpc, all_channels, m_to_fetch, user_id_map, live_data,
                   di_used, mobs, hvars, obs>>

\* line 125: next() on the dict iterator after a handler inserted a chat:
\* RuntimeError: dictionary changed size during iteration
MDiffError ==
    /\ mpc = "diff"
    /\ InnerDone
    /\ Len(watchlists) # di_used
    /\ MExcept

\* A commit that never replaces the snapshot.
NewLiveStatusKept(old_status, current_live) == old_status

\* A commit that merges the poll into the old snapshot (live_status.update).
NewLiveStatusMerged(old_status, current_live) ==
    [u \in DOMAIN old_status \cup DOMAIN current_live |-> TRUE]

\* line 147: live_status = current_live
NewLiveStatus(old_status, current_live) == current_live

\* line 147, then line 151
MCommit ==
    /\ mpc = "diff"
    /\ InnerDone
    /\ Len(watchlists) = di_used
    /\ ci >= Len(watchlists)
    /\ live_status' = NewLiveStatus(live_status, CurrentLive(live_data))
    /\ last_cycle' = "ok"
    /\ prev_poll' = [u \in polled |-> u \in live_data]
    /\ already_live' = {}
    /\ MEnd
    /\ UNCHANGED <<watchlists, user_ids_cache, hvars>>

(***************************************************************************)
(* Telegram command handlers.  One update is handled at a time.            *)
(***************************************************************************)
\* the handler returns
HIdle ==
    /\ hpc' = "idle"
    /\ h_chat' = None
    /\ h_channel' = None
    /\ h_to_fetch' = {}
    /\ h_uid' = None
    /\ h_live_data' = {}
    /\ hsent' = {}

\* lines 154-171: /start
Start(chat_id) ==
    /\ hpc = "idle"
    /\ watchlists' = SetDefault(watchlists, chat_id)
    /\ UNCHANGED <<live_status, user_ids_cache, mvars, hvars, obs>>

\* lines 173-187 and 210-211: /add up to the reply, before the immediate check
AddChannel(chat_id, args) ==
    /\ hpc = "idle"
    /\ IF Len(args) # 1
       THEN UNCHANGED <<watchlists, hvars>>
       ELSE LET channel == lower(args[1])
                w == SetDefault(watchlists, chat_id)
                i == ChatIdx(w, chat_id)
            IN  IF channel \notin Range(w[i].channels)
                THEN /\ watchlists' = [w EXCEPT ![i].channels = Append(@, channel)]
                     /\ hpc' = "add_token"
                     /\ h_chat' = chat_id
                     /\ h_channel' = channel
                     /\ UNCHANGED <<h_to_fetch, h_uid, h_live_data, hsent>>
                ELSE /\ watchlists' = w
                     /\ UNCHANGED hvars
    /\ UNCHANGED <<live_status, user_ids_cache, mvars, obs>>

\* lines 191-196 and 66-67: the token arrives; find the names to fetch
AddToken ==
    /\ hpc = "add_token"
    /\ h_to_fetch' = ToFetch({h_channel}, user_ids_cache)
    /\ hpc' = "add_resolve"
    /\ UNCHANGED <<globals, mvars, h_chat, h_channel, h_uid, h_live_data, hsent, obs>>

\* lines 207-208: any exception of the immediate check is logged
AddExcept ==
    /\ HIdle
    /\ UNCHANGED <<globals, mvars, obs>>

\* line 191: get_app_token() raises
AddTokenFail ==
    /\ hpc = "add_token"
    /\ AddExcept

\* lines 68-77 and 196-198: fetch the name if missing, store it, look up uid
AddResolve ==
    /\ hpc = "add_resolve"
    /\ \E resp \in UsersResponses(h_to_fetch) :
          /\ user_ids_cache' = IF h_to_fetch = {} THEN user_ids_cache
                               ELSE CacheStore(user_ids_cache, resp)
          /\ LET uid == Get(UserIdMap({h_channel}, user_ids_cache'), h_channel, None)
             IN  IF uid = None
                 THEN HIdle
                 ELSE /\ h_uid' = uid
                      /\ hpc' = "add_poll"
                      /\ UNCHANGED <<h_chat, h_channel, h_to_fetch, h_live_data, hsent>>
    /\ UNCHANGED <<watchlists, live_status, mvars, obs>>

\* line 73: resp.raise_for_status() raises (only when a request is made)
AddResolveFail ==
    /\ hpc = "add_resolve"
    /\ h_to_fetch # {}
    /\ AddExcept

\* lines 199-204: poll the one id; if it is live, send "already LIVE"
AddPoll ==
    /\ hpc = "add_poll"
    /\ \E data \in LiveResponses({h_uid}) :
          IF h_uid \in data
          THEN /\ h_live_data' = data
               /\ hsent' = hsent \cup {Note(h_chat, h_channel, "already")}
               /\ already_live' = already_live \cup {<<h_chat, h_channel>>}
               /\ hpc' = "add_seed"
               /\ UNCHANGED <<h_chat, h_channel, h_to_fetch, h_uid, last_cycle,
                              prev_poll>>
          ELSE /\ HIdle
               /\ UNCHANGED obs
    /\ UNCHANGED <<globals, mvars>>

\* line 85: resp.raise_for_status() raises
AddPollFail ==
    /\ hpc = "add_poll"
    /\ AddExcept

\* An immediate check that does not record the channel as live.
SeedNothing(status, uid) == status

\* line 206: live_status[uid] = True
Seed(status, uid) ==
    [u \in DOMAIN status \cup {uid} |-> IF u = uid THEN TRUE ELSE status[u]]

\* lines 204-206: send_notification returns, then live_status[uid] = True
AddSeed ==
    /\ hpc = "add_seed"
    /\ \E ok \in BOOLEAN :
          IF AfterSend(ok) = "continue"
          THEN live_status' = Seed(live_status, h_uid)
          ELSE UNCHANGED live_status
    /\ HIdle
    /\ UNCHANGED <<watchlists, user_ids_cache, mvars, obs>>

\* lines 213-226: /remove
RemoveChannel(chat_id, args) ==
    /\ hpc = "idle"
    /\ IF Len(args) # 1
       THEN UNCHANGED watchlists
       ELSE LET channel == lower(args[1])
            IN  IF HasChat(watchlists, chat_id)
                   /\ channel \in Range(ChannelsOf(watchlists, chat_id))
                THEN watchlists' =
                        [watchlists EXCEPT ![ChatIdx(watchlists, chat_id)].channels =
                            ListRemove(@, channel)]
                ELSE UNCHANGED watchlists
    /\ UNCHANGED <<live_status, user_ids_cache, mvars, hvars, obs>>

(***************************************************************************)
(* Specifications                                                          *)
(***************************************************************************)
\* What the users type while the two threads interleave freely.
(***************************************************************************)
(* The notification targets: /setapprise, its confirmation, /cancel and    *)
(* /rmapprise.  ConversationHandler keeps one state for each (chat, user)  *)
(* and hands an update to set_apprise only when that state is END, to      *)
(* confirm_apprise and cancel_set_apprise only when it is                  *)
(* SET_APPRISE_CONFIRM; context.user_data is one dict for each user.       *)
(***************************************************************************)
UrlArgLists == {<< >>} \cup {<<u>> : u \in Urls} \cup {<<"url1", "url2">>}
Replies == {"yes", " Y ", "no"}
IndexArgLists == {<< >>, <<"0">>, <<"1">>, <<"2">>, <<"3">>, <<"x">>, <<"1", "2">>}

\* line 270: update.message.text.strip().lower()
StripLower(text) == IF text = " Y " THEN "y" ELSE text

\* line 315: int(context.args[0]) returns, or raises ValueError
IsInt(a) == a \in {"0", "1", "2", "3"}
IntOf(a) ==
    CASE a = "0" -> 0
      [] a = "1" -> 1
      [] a = "2" -> 2
      [] a = "3" -> 3

\* lines 294 and 308: watchlists.get(chat_id, {}).get("apprise_urls", [])
AppriseUrlsOf(w, chat_id) ==
    IF HasChat(w, chat_id) THEN w[ChatIdx(w, chat_id)].apprise_urls ELSE << >>

\* A pop that takes the last target whatever the index.
PopLast(l, index) == [i \in 1..(Len(l) - 1) |-> l[i]]

\* line 323: list.pop(index - 1)
Pop(l, index) == [i \in 1..(Len(l) - 1) |-> IF i < index THEN l[i] ELSE l[i + 1]]

\* lines 258-266: what set_apprise returns after the test notification
AfterTest(worked) == IF worked THEN SET_APPRISE_CONFIRM ELSE END

\* lines 244-266: /setapprise, an entry point of the conversation
SetApprise(chat_id, user, args) ==
    /\ hpc = "idle"
    /\ conv[<<chat_id, user>>] = END
    /\ IF Len(args) # 1
       THEN UNCHANGED <<conv, user_data, last_test>>
       ELSE \E worked \in BOOLEAN :
              /\ user_data' = [user_data EXCEPT ![user] = args[1]]
              /\ conv' = [conv EXCEPT ![<<chat_id, user>>] = AfterTest(worked)]
              /\ last_test' = [last_test EXCEPT ![<<chat_id, user>>] = <<args[1], worked>>]
    /\ UNCHANGED <<globals, mvars, hvars, obs>>

\* lines 268-286: a text reply while the conversation awaits confirmation
ConfirmApprise(chat_id, user, text) ==
    /\ hpc = "idle"
    /\ conv[<<chat_id, user>>] = SET_APPRISE_CONFIRM
    /\ LET url == user_data[user]
           w == SetDefault(watchlists, chat_id)
           i == ChatIdx(w, chat_id)
       IN  IF StripLower(text) \in {"yes", "y"}
           THEN IF url = None
                THEN UNCHANGED watchlists
                ELSE IF url \notin Range(w[i].apprise_urls)
                     THEN watchlists' = [w EXCEPT ![i].apprise_urls = Append(@, url)]
                     ELSE watchlists' = w
           ELSE UNCHANGED watchlists
    /\ conv' = [conv EXCEPT ![<<chat_id, user>>] = END]
    /\ UNCHANGED <<live_status, user_ids_cache, mvars, hvars, obs, user_data, last_test>>

\* lines 288-290: /cancel, the fallback of the conversation
CancelSetApprise(chat_id, user) ==
    /\ hpc = "idle"
    /\ conv[<<chat_id, user>>] = SET_APPRISE_CONFIRM
    /\ conv' = [conv EXCEPT ![<<chat_id, user>>] = END]
    /\ UNCHANGED <<globals, mvars, hvars, obs, user_data, last_test>>

\* lines 306-327: /rmapprise
RemoveApprise(chat_id, args) ==
    /\ hpc = "idle"
    /\ LET apprise_urls == AppriseUrlsOf(watchlists, chat_id)
           index == IntOf(args[1])
       IN  IF Len(args) # 1
           THEN UNCHANGED watchlists
           ELSE IF ~IsInt(args[1])
           THEN UNCHANGED watchlists
           ELSE IF index < 1 \/ index > Len(apprise_urls)
           THEN UNCHANGED watchlists
           ELSE watchlists' = [watchlists EXCEPT
                    ![ChatIdx(watchlists, chat_id)].apprise_urls = Pop(apprise_urls, index)]
    /\ UNCHANGED <<live_status, user_ids_cache, mvars, hvars, obs, conv, user_data, last_test>>

RaceArgLists == {<< >>, <<"alice">>, <<"Alice">>}

\* The two threads interleave freely.
Next ==
    \/ MToken /\ UNCHANGED avars
    \/ MTokenFail /\ UNCHANGED avars
    \/ MBegin /\ UNCHANGED avars
    \/ MResolve /\ UNCHANGED avars
    \/ MResolveFail /\ UNCHANGED avars
    \/ MPoll /\ UNCHANGED avars
    \/ MPollFail /\ UNCHANGED avars
    \/ MDiffPair /\ UNCHANGED avars
    \/ MDiffNextChat /\ UNCHANGED avars
    \/ MDiffError /\ UNCHANGED avars
    \/ MCommit /\ UNCHANGED avars
    \/ \E chat_id \in Chats : Start(chat_id) /\ UNCHANGED avars
    \/ \E chat_id \in Chats, args \in RaceArgLists : AddChannel(chat_id, args) /\ UNCHANGED avars
    \/ AddToken /\ UNCHANGED avars
    \/ AddTokenFail /\ UNCHANGED avars
    \/ AddResolve /\ UNCHANGED avars
    \/ AddResolveFail /\ UNCHANGED avars
    \/ AddPoll /\ UNCHANGED avars
    \/ AddPollFail /\ UNCHANGED avars
    \/ AddSeed /\ UNCHANGED avars
    \/ \E chat_id \in Chats, args \in RaceArgLists : RemoveChannel(chat_id, args) /\ UNCHANGED avars

Spec == Init /\ [][Next]_vars

\* What the users type while commands and cycles take turns.
SeqArgLists == {<< >>, <<"alice">>, <<"Alice">>, <<"bob">>, <<"alice", "bob">>}

\* No cycle is in flight: the monitor sleeps (line 151), has not started its
\* first cycle, or has ended.
MonitorIdle == mpc \in {"token", "loop", "dead"}

\* Commands and cycles take turns: a command is handled from its first line
\* to its last while the monitor sleeps, and a cycle runs from line 111 to
\* line 151 while no command is being handled.
NextSeq ==
    \/ MToken /\ UNCHANGED avars
    \/ MTokenFail /\ UNCHANGED avars
    \/ hpc = "idle" /\ MBegin /\ UNCHANGED avars
    \/ MResolve /\ UNCHANGED avars
    \/ MResolveFail /\ UNCHANGED avars
    \/ MPoll /\ UNCHANGED avars
    \/ MPollFail /\ UNCHANGED avars
    \/ MDiffPair /\ UNCHANGED avars
    \/ MDiffNextChat /\ UNCHANGED avars
    \/ MCommit /\ UNCHANGED avars
    \/ \E chat_id \in Chats : MonitorIdle /\ Start(chat_id) /\ UNCHANGED avars
    \/ \E chat_id \in Chats, args \in SeqArgLists :
          MonitorIdle /\ AddChannel(chat_id, args) /\ UNCHANGED avars
    \/ AddToken /\ UNCHANGED avars
    \/ AddTokenFail /\ UNCHANGED avars
    \/ AddResolve /\ UNCHANGED avars
    \/ AddResolveFail /\ UNCHANGED avars
    \/ AddPoll /\ UNCHANGED avars
    \/ AddPollFail /\ UNCHANGED avars
    \/ AddSeed /\ UNCHANGED avars
    \/ \E chat_id \in Chats, args \in SeqArgLists :
          MonitorIdle /\ RemoveChannel(chat_id, args) /\ UNCHANGED avars

SpecSeq == Init /\ [][NextSeq]_vars

\* The channel lists a stored watchlists.json may hold.
ChannelLists ==
    {l \in UNION {[1..n -> Names] : n \in 0..MaxInitLen} :
        \A i \in 1..Len(l), j \in 1..Len(l) : l[i] = l[j] => i = j}

\* line 51: watchlists.json holds a list for each chat
InitStores ==
    {<<[chat_id |-> "c1", channels |-> x, apprise_urls |-> << >>],
       [chat_id |-> "c2", channels |-> y, apprise_urls |-> << >>]>> :
        x \in ChannelLists, y \in ChannelLists}

InitMon ==
    /\ watchlists \in InitStores
    /\ live_status = EmptyDict
    /\ user_ids_cache = EmptyDict
    /\ InitLocals

\* The monitor thread alone: no command arrives, the watchlists stay as loaded.
NextMon ==
    \/ MToken /\ UNCHANGED avars
    \/ MTokenFail /\ UNCHANGED avars
    \/ MBegin /\ UNCHANGED avars
    \/ MResolve /\ UNCHANGED avars
    \/ MResolveFail /\ UNCHANGED avars
    \/ MPoll /\ UNCHANGED avars
    \/ MPollFail /\ UNCHANGED avars
    \/ MDiffPair /\ UNCHANGED avars
    \/ MDiffNextChat /\ UNCHANGED avars
    \/ MCommit /\ UNCHANGED avars

SpecMon == InitMon /\ [][NextMon]_vars

\* The conversation alone, from the empty store: /setapprise, the replies,
\* /cancel and /rmapprise, one update after the other.
NextConv ==
    \/ \E chat_id \in Chats, user \in Users, args \in UrlArgLists :
          SetApprise(chat_id, user, args) /\ UNCHANGED <<last_cmd, informed>>
    \/ \E chat_id \in Chats, user \in Users, text \in Replies :
          ConfirmApprise(chat_id, user, text) /\ UNCHANGED <<last_cmd, informed>>
    \/ \E chat_id \in Chats, user \in Users :
          CancelSetApprise(chat_id, user) /\ UNCHANGED <<last_cmd, informed>>
    \/ \E chat_id \in Chats, args \in IndexArgLists :
          RemoveApprise(chat_id, args) /\ UNCHANGED <<last_cmd, informed>>

SpecConv == Init /\ [][NextConv]_vars

\* What a user may type after /add or /remove in the command runs below.
CmdArgLists == {<< >>, <<"ghost">>, <<"alice", "bob">>}

\* The target lists a stored watchlists.json may hold for a chat.
UrlLists == {<< >>, <<"url1">>, <<"url2">>, <<"url1", "url2">>, <<"url2", "url1">>}

\* line 51: watchlists.json holds chat c1 with its targets, c2 is unknown
InitCmd ==
    /\ watchlists \in {<<[chat_id |-> "c1", channels |-> << >>, apprise_urls |-> l]>> :
                          l \in UrlLists}
    /\ live_status = EmptyDict
    /\ user_ids_cache = EmptyDict
    /\ InitLocals

\* The handler of a command has run.
Handled(cmd, chat_id, args) ==
    last_cmd' = [seq |-> 1 - last_cmd.seq, cmd |-> cmd, chat |-> chat_id, args |-> args]

\* The commands that validate their arguments, one update after the other,
\* on a stored watchlists.json; the monitor thread has not run yet.
NextCmd ==
    \/ \E chat_id \in Chats, args \in CmdArgLists :
          AddChannel(chat_id, args) /\ Handled("add", chat_id, args) /\ UNCHANGED informed
             /\ UNCHANGED <<conv, user_data, last_test>>
    \/ AddToken /\ UNCHANGED avars
    \/ AddTokenFail /\ UNCHANGED avars
    \/ AddResolve /\ UNCHANGED avars
    \/ AddResolveFail /\ UNCHANGED avars
    \/ \E chat_id \in Chats, args \in CmdArgLists :
          RemoveChannel(chat_id, args) /\ Handled("remove", chat_id, args) /\ UNCHANGED informed
             /\ UNCHANGED <<conv, user_data, last_test>>
    \/ \E chat_id \in Chats, user \in Users, args \in UrlArgLists :
          SetApprise(chat_id, user, args) /\ Handled("setapprise", chat_id, args) /\ UNCHANGED informed
    \/ \E chat_id \in Chats, args \in IndexArgLists :
          RemoveApprise(chat_id, args) /\ Handled("rmapprise", chat_id, args) /\ UNCHANGED informed

SpecCmd == InitCmd /\ [][NextCmd]_vars

\* The channel the chats add and remove while the notifications are recorded.
NoteArgLists == {<<"alice">>}

\* The pairs a step's notifications leave told "live": a pair the step appends
\* to a list (line 184) or removes from it (line 221) is no longer told, a
\* pair sent "is now LIVE" (line 139) or "already LIVE" (line 204) is told,
\* a pair sent "has gone offline" (line 146) is no longer told.
InformedAfter ==
    LET notes == (sent' \ sent) \cup (hsent' \ hsent)
        pairs == UNION {{<<watchlists'[i].chat_id, watchlists'[i].channels[j]>> :
                            j \in 1..Len(watchlists'[i].channels)} :
                               i \in 1..Len(watchlists')}
        old == UNION {{<<watchlists[i].chat_id, watchlists[i].channels[j]>> :
                          j \in 1..Len(watchlists[i].channels)} :
                             i \in 1..Len(watchlists)}
        up == {<<n.chat, n.channel>> : n \in {m \in notes : m.kind # "offline"}}
        down == {<<n.chat, n.channel>> : n \in {m \in notes : m.kind = "offline"}}
    IN  (((informed \cap pairs) \ (pairs \ old)) \ down) \cup up

\* A step of the program with its notifications recorded.
Tracked ==
    /\ informed' = InformedAfter
    /\ UNCHANGED <<conv, user_data, last_test, last_cmd>>

\* Commands and cycles take turns as in NextSeq; every notification sent is
\* recorded in informed.
NextNote ==
    \/ MToken /\ Tracked
    \/ MTokenFail /\ Tracked
    \/ hpc = "idle" /\ MBegin /\ Tracked
    \/ MResolve /\ Tracked
    \/ MResolveFail /\ Tracked
    \/ MPoll /\ Tracked
    \/ MPollFail /\ Tracked
    \/ MDiffPair /\ Tracked
    \/ MDiffNextChat /\ Tracked
    \/ MCommit /\ Tracked
    \/ \E chat_id \in Chats, args \in NoteArgLists :
          MonitorIdle /\ AddChannel(chat_id, args) /\ Tracked
    \/ AddToken /\ Tracked
    \/ AddTokenFail /\ Tracked
    \/ AddResolve /\ Tracked
    \/ AddResolveFail /\ Tracked
    \/ AddPoll /\ Tracked
    \/ AddPollFail /\ Tracked
    \/ AddSeed /\ Tracked
    \/ \E chat_id \in Chats, args \in NoteArgLists :
          MonitorIdle /\ RemoveChannel(chat_id, args) /\ Tracked

SpecNote == Init /\ [][NextNote]_vars

(***************************************************************************)
(* Properties                                                              *)
(***************************************************************************)
\* The (chat, channel) pairs of a store.
Pairs(w) ==
    UNION {{<<w[i].chat_id, w[i].channels[j]>> : j \in 1..Len(w[i].channels)} :
              i \in 1..Len(w)}

\* The diff loop has visited every pair: line 147 is next.
DiffDone == mpc = "diff" /\ InnerDone /\ ci >= Len(watchlists)

\* The notifications a whole diff of store w owes: went-live for a resolved
\* id that status has false or absent and data reports live, went-offline for
\* one that status has true and data does not report.
Owed(w, status, idmap, data) ==
    {Note(p[1], p[2], "live") : p \in
        {q \in Pairs(w) : /\ lower(q[2]) \in DOMAIN idmap
                          /\ ~Get(status, idmap[lower(q[2])], FALSE)
                          /\ idmap[lower(q[2])] \in data}}
    \cup
    {Note(p[1], p[2], "offline") : p \in
        {q \in Pairs(w) : /\ lower(q[2]) \in DOMAIN idmap
                          /\ Get(status, idmap[lower(q[2])], FALSE)
                          /\ idmap[lower(q[2])] \notin data}}

\* C1: in a cycle that reaches the diff loop, each visit of a (subscriber,
\* channel) with a resolved id sends went-live iff live_status has the id
\* false or absent and the poll reports it live, went-offline iff live_status
\* has it true and the poll does not report it, and nothing otherwise; when
\* the loop ends, the notifications sent are exactly those owed to all the
\* watched pairs.
C1_DiffDecision ==
    [][/\ (mpc = "diff" /\ mpc' = "diff" /\ wi' = wi + 1) =>
            LET chat_id == watchlists[ci].chat_id
                username == watchlists[ci].channels[wi + 1]
                resolved == lower(username) \in DOMAIN user_id_map
                uid == user_id_map[lower(username)]
                was == uid \in DOMAIN live_status /\ live_status[uid]
            IN  sent' = sent \cup
                  (IF resolved /\ ~was /\ uid \in live_data
                   THEN {Note(chat_id, username, "live")}
                   ELSE IF resolved /\ was /\ uid \notin live_data
                   THEN {Note(chat_id, username, "offline")}
                   ELSE {})
       /\ (mpc = "diff" /\ mpc' = "loop") =>
            sent = Owed(watchlists, live_status, user_id_map, live_data)
      ]_vars

\* C1 witness: a diff loop that has sent a went-live and a went-offline and
\* has left a resolved pair without a notification.
C1_Witness ==
    /\ DiffDone
    /\ \E n \in sent : n.kind = "live"
    /\ \E n \in sent : n.kind = "offline"
    /\ \E p \in Pairs(watchlists) :
          /\ p[2] \in DOMAIN user_id_map
          /\ \A n \in sent : <<n.chat, n.channel>> # p

\* The ids the latest completed cycle polled live.
PrevLive == {u \in DOMAIN prev_poll : prev_poll[u]}

\* The notifications owed by the change of the polled status alone: went-live
\* for an id the latest completed cycle did not report live and this one
\* does, went-offline for the reverse.
OwedByPolls(w, before, cache, data) ==
    {Note(p[1], p[2], "live") : p \in
        {q \in Pairs(w) : /\ q[2] \in DOMAIN cache
                          /\ cache[q[2]] \in data \ before}}
    \cup
    {Note(p[1], p[2], "offline") : p \in
        {q \in Pairs(w) : /\ q[2] \in DOMAIN cache
                          /\ cache[q[2]] \in before \ data}}

\* C2: from the empty snapshot and with the watchlists unchanged, a completed
\* cycle sends exactly one notification per watched pair whose polled status
\* differs from that of the latest completed cycle (none before it: not
\* live): went-live on false->true, went-offline on true->false; a poll equal
\* to the previous one sends nothing.
C2_OnePerChange ==
    [][(mpc = "diff" /\ mpc' = "loop") =>
          /\ sent = OwedByPolls(watchlists, PrevLive, user_ids_cache, live_data)
          /\ (live_data = PrevLive => sent = {})
      ]_vars

\* C2 witness: a completed diff after an earlier completed cycle, with a
\* channel gone offline and one gone live, and a live channel not notified
\* again.
C2_Witness ==
    /\ DiffDone
    /\ last_cycle = "ok"
    /\ \E n \in sent : n.kind = "offline"
    /\ \E n \in sent : n.kind = "live"
    /\ PrevLive \cap live_data # {}

\* C3: a cycle whose resolve or poll call fails sends nothing and leaves
\* live_status as it was: no step of the monitor before the diff loop
\* changes live_status or sends, and the failing step ends the cycle.
C3_FailedCycleKeepsSnapshot ==
    [][(mpc \in {"loop", "resolve", "poll"} /\ mpc' # mpc) =>
          (live_status' = live_status /\ sent = {} /\ sent' = {})
      ]_vars

\* C3 witness: a cycle has just failed and the snapshot still holds a live id.
C3_Witness ==
    /\ mpc = "loop"
    /\ last_cycle \in {"resolve_error", "poll_error"}
    /\ \E u \in DOMAIN live_status : live_status[u]

\* C4: when /add's immediate check finds the added channel live and no
\* cycle is in flight, the handler sends exactly one "already LIVE"
\* notification to the adding subscriber and sets live_status[id] to true, and
\* the next completed cycle that polls the channel live sends that subscriber
\* no notification for it.
C4_AddOfLiveChannel ==
    [][/\ (hpc = "add_poll" /\ hpc' = "add_seed") =>
            (hsent = {} /\ hsent' = {Note(h_chat, h_channel, "already")})
       /\ (hpc = "add_seed" /\ hpc' = "idle") =>
            (/\ hsent = {Note(h_chat, h_channel, "already")}
             /\ h_uid \in DOMAIN live_status'
             /\ live_status'[h_uid])
       /\ (mpc = "diff" /\ mpc' = "loop") =>
            \A p \in already_live :
                (p[2] \in DOMAIN user_id_map /\ user_id_map[p[2]] \in live_data)
                    => \A n \in sent : <<n.chat, n.channel>> # p
      ]_vars

\* C4 witness: the cycle after an /add that found its channel live has
\* finished its diff, the channel is still polled live and still watched by
\* the adding subscriber.
C4_Witness ==
    /\ DiffDone
    /\ \E p \in already_live :
          /\ p \in Pairs(watchlists)
          /\ p[2] \in DOMAIN user_id_map
          /\ user_id_map[p[2]] \in live_data

\* C5: whenever a channel polled not-live by the previous completed cycle is
\* polled live by this one, every subscriber watching it has received a live
\* notification for that session: went-live in this cycle, or "already LIVE"
\* from an /add since the previous cycle.
C5_EverySubscriberNotified ==
    [][(mpc = "diff" /\ mpc' = "loop") =>
          \A p \in Pairs(watchlists) :
              (p[2] \in DOMAIN user_id_map
                  /\ user_id_map[p[2]] \in DOMAIN prev_poll
                  /\ ~prev_poll[user_id_map[p[2]]]
                  /\ user_id_map[p[2]] \in live_data)
              => (Note(p[1], p[2], "live") \in sent \/ p \in already_live)
      ]_vars

\* C6: a delivery failure in a cycle does not stop the cycle: the step in
\* which a delivery fails stays in the diff loop, every step that leaves the
\* loop has sent every owed notification and replaces live_status with the
\* poll result.
C6_DeliveryFailureGoesOn ==
    [][/\ (mpc = "diff" /\ ~delivery_failed /\ delivery_failed') =>
            (mpc' = "diff" /\ wi' = wi + 1)
       /\ (mpc = "diff" /\ mpc' = "loop") =>
            (/\ Owed(watchlists, live_status, user_id_map, live_data) \subseteq sent
             /\ live_status' = CurrentLive(live_data)
             /\ last_cycle' = "ok")
      ]_vars

\* C6 witness: a diff loop is complete although a delivery failed in it, and
\* two subscribers have been sent a notification.
C6_Witness ==
    /\ DiffDone
    /\ delivery_failed
    /\ \E n1, n2 \in sent : n1.chat # n2.chat

\* C7: the monitor thread never terminates because of an error.
C7_MonitorNeverTerminates == mpc # "dead"

\* C8: the step that completes a cycle replaces live_status in full by the
\* poll result: exactly the ids reported live map to true, no other id is
\* kept.
C8_ReplacedInFull ==
    [][(mpc = "diff" /\ mpc' = "loop" /\ last_cycle' = "ok") =>
          (/\ DOMAIN live_status' = live_data
           /\ \A u \in live_data : live_status'[u])
      ]_vars

\* C8 witness: a cycle is about to complete with an id that was true before
\* and is absent from the poll, and an id that is new in the poll.
C8_Witness ==
    /\ DiffDone
    /\ Len(watchlists) = di_used
    /\ \E u \in DOMAIN live_status : live_status[u] /\ u \notin live_data
    /\ \E u \in live_data : u \notin DOMAIN live_status

\* The names watched by some subscriber.
Watched == {p[2] : p \in Pairs(watchlists)}

\* C9: the ids sent to the poller are the resolved ids of the names watched
\* by any subscriber: every watched name Twitch resolves is polled, and no id
\* of an unwatched name is.
C9_PolledIsUnionOfWatched ==
    mpc = "diff" =>
        /\ polled = {user_ids_cache[n] : n \in Watched \cap DOMAIN user_ids_cache}
        /\ \A n \in Watched : TwitchIds(n) # {} => polled \cap TwitchIds(n) # {}

\* C9 witness: a poll for two subscribers who share one channel while one of
\* them alone watches another.
C9_Witness ==
    /\ mpc = "diff"
    /\ Len(watchlists) = 2
    /\ Range(watchlists[1].channels) \cap Range(watchlists[2].channels) # {}
    /\ Range(watchlists[2].channels) \ Range(watchlists[1].channels) # {}
    /\ Cardinality(polled) = 2

\* C10: user_ids_cache is append-only: no step removes an entry or changes
\* its id, and no lookup goes upstream for a name that is in the cache.
C10_CacheAppendOnly ==
    [][/\ \A n \in DOMAIN user_ids_cache :
            n \in DOMAIN user_ids_cache' /\ user_ids_cache'[n] = user_ids_cache[n]
       /\ (mpc = "resolve" /\ mpc' # mpc) => m_to_fetch \cap DOMAIN user_ids_cache = {}
       /\ (hpc = "add_resolve" /\ hpc' # hpc) => h_to_fetch \cap DOMAIN user_ids_cache = {}
      ]_vars

\* C11: a get_user_ids call whose upstream lookup fails ends the caller's
\* try block and leaves user_ids_cache as it was: the monitor's failing
\* resolve step and the /add handler's failing resolve step insert nothing.
C11_FailedLookupKeepsCache ==
    [][/\ (mpc = "resolve" /\ mpc' = "loop") =>
            (last_cycle' = "resolve_error" /\ user_ids_cache' = user_ids_cache)
       /\ (hpc = "add_resolve" /\ hpc' = "idle") =>
            user_ids_cache' = user_ids_cache
      ]_vars

\* C11 witness: a cycle's lookup for a missing name has just failed while the
\* cache holds an entry.
C11_Witness ==
    /\ mpc = "loop"
    /\ last_cycle = "resolve_error"
    /\ DOMAIN user_ids_cache # {}
    /\ Watched \ DOMAIN user_ids_cache # {}

\* C12: an /add whose immediate check overlaps a cycle in flight gives the
\* adding subscriber one live notification only, and its seed survives the
\* cycle: when a cycle completes, no pair that got "already LIVE" since the
\* previous completed cycle has also been sent went-live by this cycle, and
\* the seed of a watched channel that this cycle did not poll (it was added
\* after the cycle read the store) is still true in live_status.
C12_SeedNotLost ==
    [][(mpc = "diff" /\ mpc' = "loop" /\ last_cycle' = "ok") =>
          \A p \in already_live :
              /\ Note(p[1], p[2], "live") \notin sent
              /\ (/\ p \in Pairs(watchlists)
                  /\ p[2] \in DOMAIN user_ids_cache
                  /\ user_ids_cache[p[2]] \notin polled
                  /\ Get(live_status, user_ids_cache[p[2]], FALSE))
                 => Get(live_status', user_ids_cache[p[2]], FALSE)
      ]_vars

\* C13: a cycle diffs the pairs that were in the store when it began: every
\* pair the diff loop visits has a channel name that the cycle gathered at
\* its start, and a diff loop, once started, runs to its end whatever the
\* command handlers do to the store meanwhile.
C13_DiffsSnapshot ==
    [][/\ (mpc = "diff" /\ mpc' = "diff" /\ wi' = wi + 1) =>
            watchlists[ci].channels[wi + 1] \in all_channels
       /\ (mpc = "diff" /\ mpc' = "loop") => last_cycle' = "ok"
      ]_vars

\* C14: a watched name the resolver cannot map is skipped for the cycle and
\* no more: its visit sends nothing and the loop goes on; the cycle that
\* holds such a name still polls exactly the resolved ids, sends every owed
\* notification, none of them for the unresolved name, and replaces
\* live_status; the next cycle asks upstream for the name again.
C14_UnresolvedSkipped ==
    [][/\ (/\ mpc = "diff" /\ ci >= 1 /\ ~InnerDone
           /\ watchlists[ci].channels[wi + 1] \notin DOMAIN user_ids_cache) =>
            (mpc' = "diff" /\ wi' = wi + 1 /\ sent' = sent)
       /\ (mpc = "diff" /\ mpc' = "loop") =>
            (/\ last_cycle' = "ok"
             /\ polled = {user_ids_cache[n] : n \in Watched \cap DOMAIN user_ids_cache}
             /\ sent = Owed(watchlists, live_status, user_id_map, live_data)
             /\ \A n \in sent : n.channel \in DOMAIN user_ids_cache
             /\ live_status' = CurrentLive(live_data))
       /\ (mpc = "loop" /\ mpc' = "resolve") =>
            Watched \ DOMAIN user_ids_cache \subseteq m_to_fetch'
      ]_vars

\* C14 witness: a diff loop is complete for a chat that watches an
\* unresolvable name ahead of a channel it has been notified about.
C14_Witness ==
    /\ DiffDone
    /\ \E i \in 1..Len(watchlists) :
          /\ Len(watchlists[i].channels) = 2
          /\ watchlists[i].channels[1] \notin DOMAIN user_ids_cache
          /\ \E n \in sent :
                n.chat = watchlists[i].chat_id /\ n.channel = watchlists[i].channels[2]

\* The name has a capital letter.
HasCapital(n) == n = "Alice"

\* Sequence s without its element at position k.
Without(s, k) == [i \in 1..(Len(s) - 1) |-> IF i < k THEN s[i] ELSE s[i + 1]]

\* C15: from the empty store, every chat's channel list holds lowercase
\* names only and none twice, and a step changes a list only by appending
\* one name that is not in it or by deleting the one occurrence of a name, so
\* /add of a name that is present in any letter case changes nothing.
C15_ListsLowercaseUnique ==
    [][/\ \A i \in 1..Len(watchlists') :
            LET l == watchlists'[i].channels
            IN  /\ \A j \in 1..Len(l) : ~HasCapital(l[j])
                /\ \A j, k \in 1..Len(l) : l[j] = l[k] => j = k
       /\ \A c \in Chats : HasChat(watchlists, c) =>
            /\ HasChat(watchlists', c)
            /\ LET old == ChannelsOf(watchlists, c)
                   new == ChannelsOf(watchlists', c)
               IN  \/ new = old
                   \/ /\ Len(new) = Len(old) + 1
                      /\ new = Append(old, new[Len(new)])
                      /\ \A j \in 1..Len(old) : old[j] # new[Len(new)]
                   \/ \E k \in 1..Len(old) : new = Without(old, k)
      ]_vars

\* C15 witness: one chat holds two names, both looked up, and another chat's
\* list is empty.
C15_Witness ==
    /\ Len(watchlists) = 2
    /\ Len(watchlists[1].channels) = 0
    /\ Len(watchlists[2].channels) = 2
    /\ DOMAIN user_ids_cache = {"alice", "bob"}

\* The decimal numerals of the positions of a target list.
Numerals == <<"1", "2", "3">>

\* The step is the handling of one command.
CommandStep == last_cmd'.seq # last_cmd.seq

\* C16: a command with a validation error changes nothing in the store: /add,
\* /remove, /setapprise and /rmapprise with an argument count other than one,
\* and /rmapprise whose argument is not the numeral of a position of the
\* chat's target list (a chat without a record has no position); /rmapprise
\* with the numeral of position k removes the k-th target, keeps the others
\* in order and touches nothing else.
C16_RejectedChangesNothing ==
    [][CommandStep =>
          LET cmd == last_cmd'.cmd
              args == last_cmd'.args
              chat_id == last_cmd'.chat
              targets == AppriseUrlsOf(watchlists, chat_id)
          IN  /\ (cmd \in {"add", "remove", "setapprise", "rmapprise"} /\ Len(args) # 1)
                    => watchlists' = watchlists
              /\ (cmd = "rmapprise" /\ Len(args) = 1) =>
                    IF \E k \in 1..Len(targets) : args[1] = Numerals[k]
                    THEN LET k == CHOOSE j \in 1..Len(targets) : args[1] = Numerals[j]
                         IN  watchlists' = [watchlists EXCEPT
                                ![ChatIdx(watchlists, chat_id)].apprise_urls =
                                    Without(targets, k)]
                    ELSE watchlists' = watchlists
      ]_vars

\* C16 witness: /rmapprise 1 has just removed the first of two targets.
C16_Witness ==
    /\ last_cmd.cmd = "rmapprise"
    /\ last_cmd.args = <<"1">>
    /\ Len(AppriseUrlsOf(watchlists, last_cmd.chat)) = 1

\* C17: whenever none of a user's /setapprise conversations awaits a
\* confirmation (each has ended by confirm, decline, /cancel or a failed
\* test, or never began), the user's pending_apprise_url is unset.
C17_PendingCleared ==
    \A user \in Users :
        (\A chat_id \in Chats : conv[<<chat_id, user>>] = END)
            => user_data[user] = None

\* C18: a url enters a chat's target list only in the step that ends a
\* conversation of that chat which awaited confirmation, and only if it is
\* the url of that conversation's latest /setapprise and its test succeeded;
\* no target list holds a url twice.
C18_StoredOnlyAfterTest ==
    [][\A i \in 1..Len(watchlists') :
          LET chat_id == watchlists'[i].chat_id
              new == watchlists'[i].apprise_urls
              old == AppriseUrlsOf(watchlists, chat_id)
          IN  /\ \A j, k \in 1..Len(new) : new[j] = new[k] => j = k
              /\ \A url \in Range(new) \ Range(old) :
                    \E user \in Users :
                        /\ conv[<<chat_id, user>>] = SET_APPRISE_CONFIRM
                        /\ conv'[<<chat_id, user>>] = END
                        /\ last_test[<<chat_id, user>>] = <<url, TRUE>>
      ]_vars

\* C19: the monitor sends "has gone offline" for a channel to a chat only if,
\* since the chat last added the channel, the chat was sent a live
\* notification for it ("is now LIVE" or "already LIVE") that no "has gone
\* offline" has followed yet.
C19_OfflineOnlyAfterLive ==
    [][\A n \in sent' \ sent :
          n.kind = "offline" => <<n.chat, n.channel>> \in informed]_vars

====
